---- MODULE Spec2Model ----
(***************************************************************************)
(* The falling-block minigame of frontend/src/TetrisGame.jsx: the board,   *)
(* the active piece, collision, rotation with kick search, line sweep,     *)
(* scoring, the key handler and the animation-frame game loop.             *)
(*                                                                         *)
(* Coordinates are the source's: rows and columns count from 0, so board   *)
(* row r, column c of the source is board[r + 1][c + 1] here, and the      *)
(* shape cell shape[y][x] of the source is shape[y + 1][x + 1].            *)
(***************************************************************************)
EXTENDS Integers, Sequences, FiniteSets

VARIABLES board, shape, px, py, score, gameOver, dropCounter, lastTime,
          pendingFrame, listening, locks, drops,
          canvas, draws, animationFrameId, pendingId, handles, stops,
          templates, shapeRef, startTime, pending, blockSize

gameVars == <<board, shape, px, py, score, gameOver>>
loopVars == <<dropCounter, lastTime, pendingFrame, listening>>
\* What draw() put on the canvas and how often it ran, the handle the last
\* requestAnimationFrame call returned, the handle of the callback the
\* browser holds (0: none), the handles issued, the cleanup calls made,
\* the handles of all the callbacks the browser holds, the side of a block
\* in pixels.
surroundVars ==
  <<canvas, draws, animationFrameId, pendingId, handles, stops, pending,
    blockSize>>
\* The SHAPES table as the array objects it is made of, and the entry the
\* matrix of the active piece is (0: a matrix rotate() built).
tableVars == <<templates, shapeRef>>
\* What lies around the game proper; startTime is the time, on the clock of
\* the frame timestamps, at which the effect ran.
outerVars == <<surroundVars, tableVars, startTime>>
vars == <<board, shape, px, py, score, gameOver, dropCounter, lastTime,
          pendingFrame, listening, locks, drops,
          canvas, draws, animationFrameId, pendingId, handles, stops,
          templates, shapeRef, startTime, pending, blockSize>>

(***************************************************************************)
(* Program constants.                                                      *)
(***************************************************************************)
COLS == 10
ROWS == 20
GravityInterval == 1000

SHAPES ==
  << << >>,
     << <<1, 1, 1, 1>> >>,
     << <<2, 2>>, <<2, 2>> >>,
     << <<0, 3, 3>>, <<3, 3, 0>> >>,
     << <<4, 4, 0>>, <<0, 4, 4>> >>,
     << <<0, 5, 0>>, <<5, 5, 5>> >>,
     << <<6, 0, 0>>, <<6, 6, 6>> >>,
     << <<0, 0, 7>>, <<7, 7, 7>> >> >>

\* SHAPES[typeId] of the source (the table is indexed from 0 there).
ShapeOf(typeId) == SHAPES[typeId + 1]

\* Math.floor(Math.random() * (SHAPES.length - 1)) + 1
TypeIds == 1..(Len(SHAPES) - 1)

(***************************************************************************)
(* Bounds of the model.                                                    *)
(***************************************************************************)
\* A behaviour locks at most MaxLocks pieces after its first state,
MaxLocks == 1
\* and takes at most MaxDrops drop steps (descents and locks).
MaxDrops == 5
\* The timestamps the frame callbacks of a behaviour carry, in milliseconds.
FrameTimes == {600, 1700}

ZeroRow == [c \in 1..COLS |-> 0]
EmptyBoard == [r \in 1..ROWS |-> ZeroRow]

(***************************************************************************)
(* collides(): some nonzero cell of the shape lies on a row that does not  *)
(* exist (board[r] is undefined), on a column that does not exist          *)
(* (board[r][c] is undefined) or on a nonzero board cell.                  *)
(***************************************************************************)
\* Variant: a column past the right edge is free.
CellCollidesOpenRight(b, r, c) ==
  IF r < 0 \/ r >= Len(b) THEN TRUE
  ELSE IF c < 0 THEN TRUE
  ELSE IF c >= Len(b[r + 1]) THEN FALSE
  ELSE b[r + 1][c + 1] # 0

\* Variant: a row that does not exist is free.
CellCollidesOpenRows(b, r, c) ==
  IF r < 0 \/ r >= Len(b) THEN FALSE
  ELSE IF c < 0 \/ c >= Len(b[r + 1]) THEN TRUE
  ELSE b[r + 1][c + 1] # 0

CellCollides(b, r, c) ==
  IF r < 0 \/ r >= Len(b) THEN TRUE
  ELSE IF c < 0 \/ c >= Len(b[r + 1]) THEN TRUE
  ELSE b[r + 1][c + 1] # 0

Collides(b, s, x, y) ==
  \E i \in 1..Len(s) : \E j \in 1..Len(s[i]) :
     s[i][j] # 0 /\ CellCollides(b, y + i - 1, x + j - 1)

(***************************************************************************)
(* merge(): every shape cell with value > 0 is written to the board.       *)
(***************************************************************************)
\* Variant: the zero cells of the shape are written as well.
MergeAllCells(b, s, x, y) ==
  [r \in 1..Len(b) |->
     [c \in 1..Len(b[r]) |->
        IF /\ r - y \in 1..Len(s)
           /\ c - x \in 1..Len(s[r - y])
        THEN s[r - y][c - x]
        ELSE b[r][c]]]

Merge(b, s, x, y) ==
  [r \in 1..Len(b) |->
     [c \in 1..Len(b[r]) |->
        IF /\ r - y \in 1..Len(s)
           /\ c - x \in 1..Len(s[r - y])
           /\ s[r - y][c - x] > 0
        THEN s[r - y][c - x]
        ELSE b[r][c]]]

(***************************************************************************)
(* sweepLines(): y runs from board.length - 1 down to 1; a row with no     *)
(* zero is spliced out, a zero row is unshifted, and the same y is looked  *)
(* at again.                                                               *)
(***************************************************************************)
RowFull(row) == \A c \in 1..Len(row) : row[c] # 0

\* Variant: the row put on top is ROWS cells long.
RECURSIVE SweepFromLongRow(_, _, _)
SweepFromLongRow(b, y, linesCleared) ==
  IF y <= 0 THEN [board |-> b, lines |-> linesCleared]
  ELSE IF RowFull(b[y + 1])
       THEN SweepFromLongRow(<<[c \in 1..ROWS |-> 0]>> \o SubSeq(b, 1, y)
                               \o SubSeq(b, y + 2, Len(b)),
                             y, linesCleared + 1)
       ELSE SweepFromLongRow(b, y - 1, linesCleared)

\* Variant: the zero row is pushed at the bottom instead of unshifted.
RECURSIVE SweepFromPush(_, _, _)
SweepFromPush(b, y, linesCleared) ==
  IF y <= 0 THEN [board |-> b, lines |-> linesCleared]
  ELSE IF RowFull(b[y + 1])
       THEN SweepFromPush(SubSeq(b, 1, y) \o SubSeq(b, y + 2, Len(b))
                            \o <<ZeroRow>>,
                          y, linesCleared + 1)
       ELSE SweepFromPush(b, y - 1, linesCleared)

\* Variant: the scan goes on to y = 0.
RECURSIVE SweepFromThroughRow0(_, _, _)
SweepFromThroughRow0(b, y, linesCleared) ==
  IF y < 0 THEN [board |-> b, lines |-> linesCleared]
  ELSE IF RowFull(b[y + 1])
       THEN SweepFromThroughRow0(<<ZeroRow>> \o SubSeq(b, 1, y)
                                   \o SubSeq(b, y + 2, Len(b)),
                                 y, linesCleared + 1)
       ELSE SweepFromThroughRow0(b, y - 1, linesCleared)

\* Variant: no y++ after a removal, the row shifted down to y is skipped.
RECURSIVE SweepFromNoRecheck(_, _, _)
SweepFromNoRecheck(b, y, linesCleared) ==
  IF y <= 0 THEN [board |-> b, lines |-> linesCleared]
  ELSE IF RowFull(b[y + 1])
       THEN SweepFromNoRecheck(<<ZeroRow>> \o SubSeq(b, 1, y)
                                 \o SubSeq(b, y + 2, Len(b)),
                               y - 1, linesCleared + 1)
       ELSE SweepFromNoRecheck(b, y - 1, linesCleared)

RECURSIVE SweepFrom(_, _, _)
SweepFrom(b, y, linesCleared) ==
  IF y <= 0 THEN [board |-> b, lines |-> linesCleared]
  ELSE IF RowFull(b[y + 1])
       THEN SweepFrom(<<ZeroRow>> \o SubSeq(b, 1, y) \o SubSeq(b, y + 2, Len(b)),
                      y, linesCleared + 1)
       ELSE SweepFrom(b, y - 1, linesCleared)

\* Variant: the scan starts one row above the bottom row.
SweepLinesFromRow18(b) == SweepFrom(b, Len(b) - 2, 0)

SweepLines(b) == SweepFrom(b, Len(b) - 1, 0)

\* Variant: 10 points a line.
ScoreLinear(sc, linesCleared) ==
  IF linesCleared > 0 THEN sc + linesCleared * 10 ELSE sc

\* Variant: the bonus is taken off the score.
ScoreTakenOff(sc, linesCleared) ==
  IF linesCleared > 0 THEN sc - linesCleared * 10 * linesCleared ELSE sc

\* Variant: 5 points times the square of the lines.
ScoreFiveSquared(sc, linesCleared) ==
  IF linesCleared > 0 THEN sc + linesCleared * 5 * linesCleared ELSE sc

ScoreAfter(sc, linesCleared) ==
  IF linesCleared > 0 THEN sc + linesCleared * 10 * linesCleared ELSE sc

(***************************************************************************)
(* rotate(): the clockwise quarter turn, then the kick search.             *)
(***************************************************************************)
RotatedShape(s) ==
  [c \in 1..Len(s[1]) |-> [j \in 1..Len(s) |-> s[Len(s) + 1 - j][c]]]

NextOffset(offset) == -(offset + (IF offset > 0 THEN 1 ELSE -1))

\* Variant: an abandoned search leaves the piece where the last kick put it.
RECURSIVE KickSearchNoRestore(_, _, _, _, _, _, _)
KickSearchNoRestore(b, newShape, x, y, offset, oldShape, originalX) ==
  IF ~Collides(b, newShape, x, y) THEN [shape |-> newShape, x |-> x]
  ELSE IF NextOffset(offset) > Len(newShape[1])
       THEN [shape |-> oldShape, x |-> x + offset]
       ELSE KickSearchNoRestore(b, newShape, x + offset, y, NextOffset(offset),
                                oldShape, originalX)

\* Variant: the search is abandoned two offsets later.
RECURSIVE KickSearchLate(_, _, _, _, _, _, _)
KickSearchLate(b, newShape, x, y, offset, oldShape, originalX) ==
  IF ~Collides(b, newShape, x, y) THEN [shape |-> newShape, x |-> x]
  ELSE IF NextOffset(offset) > Len(newShape[1]) + 2
       THEN [shape |-> oldShape, x |-> originalX]
       ELSE KickSearchLate(b, newShape, x + offset, y, NextOffset(offset),
                           oldShape, originalX)

RECURSIVE KickSearch(_, _, _, _, _, _, _)
KickSearch(b, newShape, x, y, offset, oldShape, originalX) ==
  IF ~Collides(b, newShape, x, y) THEN [shape |-> newShape, x |-> x]
  ELSE IF NextOffset(offset) > Len(newShape[1])
       THEN [shape |-> oldShape, x |-> originalX]
       ELSE KickSearch(b, newShape, x + offset, y, NextOffset(offset),
                       oldShape, originalX)

\* The values of currentPiece.x the while condition of rotate() calls
\* collides() with.
RECURSIVE KickTests(_, _, _, _, _)
KickTests(b, newShape, x, y, offset) ==
  IF ~Collides(b, newShape, x, y) THEN {x}
  ELSE IF NextOffset(offset) > Len(newShape[1]) THEN {x}
       ELSE {x} \cup KickTests(b, newShape, x + offset, y, NextOffset(offset))

\* Variant: the rotated shape is kept where it is, colliding or not.
RotateNoKick(b, s, x, y) == [shape |-> RotatedShape(s), x |-> x]

\* Variant: the first kick is applied before the first collision test.
RotateKickFirst(b, s, x, y) ==
  KickSearch(b, RotatedShape(s), x + 1, y, NextOffset(1), s, x)

Rotate(b, s, x, y) == KickSearch(b, RotatedShape(s), x, y, 1, s, x)

(***************************************************************************)
(* move(dir)                                                               *)
(***************************************************************************)
\* Variant: a colliding shift is not reverted.
MoveNoRevert(b, s, x, y, dir) == x + dir

Move(b, s, x, y, dir) == IF Collides(b, s, x + dir, y) THEN x ELSE x + dir

(***************************************************************************)
(* newPiece(): the spawn position of a shape.                              *)
(***************************************************************************)
\* Variant: half the width rounded up.
SpawnXRoundUp(s) == (COLS \div 2) - ((Len(s[1]) + 1) \div 2)

SpawnX(s) == (COLS \div 2) - (Len(s[1]) \div 2)

(***************************************************************************)
(* Boards the game starts a behaviour on.  Each is built by play without   *)
(* a line clear: horizontal I pieces side by side and upright I pieces on  *)
(* top of each other, every piece moved over its place and dropped.        *)
(***************************************************************************)
\* Columns 2..9 filled in the k bottom rows, column 1 in the 4 bottom rows.
PillarWell(k) ==
  [r \in 1..ROWS |->
     [c \in 1..COLS |->
        IF (c >= 3 /\ r > ROWS - k) \/ (c = 2 /\ r > ROWS - 4) THEN 1 ELSE 0]]

\* Columns 0..7 filled from row 2 down: a well two columns wide.
Tower ==
  [r \in 1..ROWS |-> [c \in 1..COLS |-> IF c <= 8 /\ r >= 3 THEN 1 ELSE 0]]

\* The tower with rows 0 and 1 filled but for columns 4 and 5: two
\* horizontal I pieces on the right, two O pieces on the left.
Brim ==
  [r \in 1..ROWS |->
     [c \in 1..COLS |->
        IF r >= 3 THEN Tower[r][c]
        ELSE IF c >= 7 THEN 1 ELSE IF c <= 4 THEN 2 ELSE 0]]

\* The tower with a J piece turned twice in the left corner of rows 0 and
\* 1, an L piece turned twice in the right corner and a horizontal I piece
\* between them in row 1: row 0 is free in columns 3..6 only.
Lid ==
  [r \in 1..ROWS |->
     [c \in 1..COLS |->
        IF r >= 3 THEN Tower[r][c]
        ELSE IF r = 1 THEN (IF c <= 3 THEN 6 ELSE IF c >= 8 THEN 7 ELSE 0)
        ELSE IF c = 3 THEN 6
        ELSE IF c = 8 THEN 7
        ELSE IF c \in 4..7 THEN 1 ELSE 0]]

\* A well in column 0 whose rows 19 and 17 lack that one cell and whose
\* row 18 lacks one more: an upright I piece in column 1, horizontal I
\* pieces in columns 2..5 of rows 17..19 and 6..9 of row 19, a T piece on
\* row 18 in columns 6..8, an O piece in columns 8 and 9 of rows 16 and
\* 17 over the hole left in row 18, an upright I piece in column 6.
GapWell ==
  [r \in 1..ROWS |->
     [c \in 1..COLS |->
        IF \/ c = 2 /\ r >= 17
           \/ c >= 3 /\ r = 20
           \/ c \in 3..6 /\ r \in {18, 19}
           \/ c = 7 /\ r \in 15..18
        THEN 1
        ELSE IF (r = 19 /\ c \in 7..9) \/ (r = 18 /\ c = 8) THEN 5
        ELSE IF r \in {17, 18} /\ c \in {9, 10} THEN 2
        ELSE 0]]

\* Boards of a game played without a key: pieces locked by gravity where
\* they fell, in columns 3..6.  Horizontal I pieces from row 1 down,
Stack ==
  [r \in 1..ROWS |-> [c \in 1..COLS |-> IF c \in 4..7 /\ r >= 2 THEN 1 ELSE 0]]

\* and a horizontal I piece in row 1 on nine O pieces.
StackOnO ==
  [r \in 1..ROWS |->
     [c \in 1..COLS |->
        IF c \in 4..7 /\ r = 2 THEN 1
        ELSE IF c \in 5..6 /\ r >= 3 THEN 2 ELSE 0]]

\* A board and the row the active piece has fallen to, untouched, from its
\* spawn position.
Starts ==
  { <<EmptyBoard, 0>>, <<PillarWell(1), 15>>, <<PillarWell(3), 13>>,
    <<PillarWell(4), 12>>, <<Tower, 0>> }

(***************************************************************************)
(* The effect body: resizeCanvas(), newPiece() and the first gameLoop()    *)
(* call, with time = 0, which draws and requests the first frame.  A       *)
(* behaviour starts there (the empty board, row 0) or later in a game      *)
(* played by keys pressed before the first frame arrived: pieces locked    *)
(* on the board, the active piece fallen from its spawn position by        *)
(* drop() calls of the down key.  No key handler draws, so the canvas      *)
(* still shows what the first gameLoop() call drew: the empty board and    *)
(* the first piece of the game where it spawned.                           *)
(***************************************************************************)
\* draw(): the board, the active piece, the score and, when the game is
\* over, the GAME OVER overlay.
Drawn(b, s, x, y, sc, over) ==
  [board |-> b, shape |-> s, x |-> x, y |-> y, score |-> sc, over |-> over]

\* The canvas after canvas.width and canvas.height were assigned: no board,
\* no piece, no score text, no overlay.
Blank ==
  [board |-> <<>>, shape |-> <<>>, x |-> 0, y |-> 0, score |-> 0, over |-> FALSE]

\* The width and height of the container resizeCanvas() reads.
FirstSize == <<300, 600>>
ContainerSizes == {FirstSize, <<400, 450>>}

\* Math.floor(Math.min(width / COLS, height / ROWS))
BlockSizeOf(size) ==
  IF size[1] \div COLS <= size[2] \div ROWS
  THEN size[1] \div COLS
  ELSE size[2] \div ROWS

\* The type of the first piece of the game that led to board b with the
\* piece of type typeId active and no line cleared: that piece itself on
\* the empty board; otherwise the piece that fell to the floor first, whose
\* cells are in the bottom row, which holds cells of one type on every
\* start board.
FirstType(b, typeId) ==
  IF b = EmptyBoard THEN typeId
  ELSE CHOOSE t \in TypeIds : \E c \in 1..COLS : b[ROWS][c] = t

\* What the first gameLoop() call drew.
FirstPicture(b, typeId) ==
  Drawn(EmptyBoard, ShapeOf(FirstType(b, typeId)),
        SpawnX(ShapeOf(FirstType(b, typeId))), 0, 0, FALSE)

\* The first gameLoop() call has drawn once and requested frame 1.
InitSurround ==
  /\ blockSize = BlockSizeOf(FirstSize)
  /\ draws = 1
  /\ handles = 1
  /\ animationFrameId = 1
  /\ pendingId = 1
  /\ pending = {1}
  /\ stops = 0

\* The game starts on one of the boards of starts, the effect having run
\* at one of the times of startTimes.
InitFrom(starts, startTimes) ==
  /\ \E st \in starts : \E typeId \in TypeIds :
        /\ board = st[1]
        /\ shape = ShapeOf(typeId)
        /\ shapeRef = typeId
        /\ px = SpawnX(ShapeOf(typeId))
        /\ py = st[2]
        /\ gameOver = Collides(st[1], ShapeOf(typeId), SpawnX(ShapeOf(typeId)), st[2])
        /\ canvas = FirstPicture(st[1], typeId)
  /\ templates = SHAPES
  /\ startTime \in startTimes
  /\ score = 0
  /\ dropCounter = 0
  /\ lastTime = 0
  /\ pendingFrame = TRUE
  /\ listening = TRUE
  /\ locks = 0
  /\ drops = 0
  /\ InitSurround

Init == InitFrom(Starts, {0})

(***************************************************************************)
(* drop(): one row down, or lock (merge, sweepLines, newPiece) when the    *)
(* lowered piece collides; typeId is newPiece's random choice, and the     *)
(* matrix of the new piece is the table entry SHAPES[typeId] itself.       *)
(***************************************************************************)
\* Variant: the test of the spawn position is negated.
NewPieceOverNegated(b, s, over) ==
  IF ~Collides(b, s, SpawnX(s), 0) THEN TRUE ELSE over

\* Variant: the spawn position is not tested.
NewPieceOverKept(b, s, over) == over

NewPieceOver(b, s, over) == IF Collides(b, s, SpawnX(s), 0) THEN TRUE ELSE over

\* Variant: the lines are swept before the piece is merged.
DropSweepFirst ==
  /\ drops < MaxDrops
  /\ drops' = drops + 1
  /\ IF Collides(board, shape, px, py + 1)
     THEN LET swept == SweepLines(board)
          IN /\ locks < MaxLocks
             /\ board' = Merge(swept.board, shape, px, py)
             /\ score' = ScoreAfter(score, swept.lines)
             /\ \E typeId \in TypeIds :
                   /\ shape' = ShapeOf(typeId)
                   /\ px' = SpawnX(ShapeOf(typeId))
                   /\ py' = 0
                   /\ shapeRef' = typeId
                   /\ gameOver' = NewPieceOver(Merge(swept.board, shape, px, py),
                                               ShapeOf(typeId), gameOver)
             /\ locks' = locks + 1
     ELSE /\ py' = py + 1
          /\ UNCHANGED <<board, shape, px, score, gameOver, locks, shapeRef>>
  /\ dropCounter' = 0

\* Variant: the gravity counter is left as it is.
DropKeepsCounter ==
  /\ drops < MaxDrops
  /\ drops' = drops + 1
  /\ IF Collides(board, shape, px, py + 1)
     THEN LET swept == SweepLines(Merge(board, shape, px, py))
          IN /\ locks < MaxLocks
             /\ board' = swept.board
             /\ score' = ScoreAfter(score, swept.lines)
             /\ \E typeId \in TypeIds :
                   /\ shape' = ShapeOf(typeId)
                   /\ px' = SpawnX(ShapeOf(typeId))
                   /\ py' = 0
                   /\ shapeRef' = typeId
                   /\ gameOver' = NewPieceOver(swept.board, ShapeOf(typeId), gameOver)
             /\ locks' = locks + 1
     ELSE /\ py' = py + 1
          /\ UNCHANGED <<board, shape, px, score, gameOver, locks, shapeRef>>
  /\ UNCHANGED dropCounter

\* Variant: a free lowered position moves the piece a row up.
DropUpward ==
  /\ drops < MaxDrops
  /\ drops' = drops + 1
  /\ IF Collides(board, shape, px, py + 1)
     THEN LET swept == SweepLines(Merge(board, shape, px, py))
          IN /\ locks < MaxLocks
             /\ board' = swept.board
             /\ score' = ScoreAfter(score, swept.lines)
             /\ \E typeId \in TypeIds :
                   /\ shape' = ShapeOf(typeId)
                   /\ px' = SpawnX(ShapeOf(typeId))
                   /\ py' = 0
                   /\ shapeRef' = typeId
                   /\ gameOver' = NewPieceOver(swept.board, ShapeOf(typeId), gameOver)
             /\ locks' = locks + 1
     ELSE /\ py' = py - 1
          /\ UNCHANGED <<board, shape, px, score, gameOver, locks, shapeRef>>
  /\ dropCounter' = 0

\* Variant: the piece is merged at the lowered position it collided at.
DropMergeLowered ==
  /\ drops < MaxDrops
  /\ drops' = drops + 1
  /\ IF Collides(board, shape, px, py + 1)
     THEN LET swept == SweepLines(Merge(board, shape, px, py + 1))
          IN /\ locks < MaxLocks
             /\ board' = swept.board
             /\ score' = ScoreAfter(score, swept.lines)
             /\ \E typeId \in TypeIds :
                   /\ shape' = ShapeOf(typeId)
                   /\ px' = SpawnX(ShapeOf(typeId))
                   /\ py' = 0
                   /\ shapeRef' = typeId
                   /\ gameOver' = NewPieceOver(swept.board, ShapeOf(typeId), gameOver)
             /\ locks' = locks + 1
     ELSE /\ py' = py + 1
          /\ UNCHANGED <<board, shape, px, score, gameOver, locks, shapeRef>>
  /\ dropCounter' = 0

\* Variant: a piece that collides where it spawns is merged there.
DropMergesSpawn ==
  /\ drops < MaxDrops
  /\ drops' = drops + 1
  /\ IF Collides(board, shape, px, py + 1)
     THEN \E swept \in {SweepLines(Merge(board, shape, px, py))} :
             /\ locks < MaxLocks
             /\ score' = ScoreAfter(score, swept.lines)
             /\ \E typeId \in TypeIds :
                   /\ shape' = ShapeOf(typeId)
                   /\ px' = SpawnX(ShapeOf(typeId))
                   /\ py' = 0
                   /\ shapeRef' = typeId
                   /\ gameOver' = NewPieceOver(swept.board, ShapeOf(typeId), gameOver)
                   /\ board' = IF Collides(swept.board, ShapeOf(typeId),
                                           SpawnX(ShapeOf(typeId)), 0)
                               THEN Merge(swept.board, ShapeOf(typeId),
                                          SpawnX(ShapeOf(typeId)), 0)
                               ELSE swept.board
             /\ locks' = locks + 1
     ELSE /\ py' = py + 1
          /\ UNCHANGED <<board, shape, px, score, gameOver, locks, shapeRef>>
  /\ dropCounter' = 0

Drop ==
  /\ drops < MaxDrops
  /\ drops' = drops + 1
  /\ IF Collides(board, shape, px, py + 1)
     THEN \E merged \in {Merge(board, shape, px, py)} :
          \E swept \in {SweepLines(merged)} :
             /\ locks < MaxLocks
             /\ board' = swept.board
             /\ score' = ScoreAfter(score, swept.lines)
             /\ \E typeId \in TypeIds :
                   /\ shape' = ShapeOf(typeId)
                   /\ px' = SpawnX(ShapeOf(typeId))
                   /\ py' = 0
                   /\ shapeRef' = typeId
                   /\ gameOver' = NewPieceOver(swept.board, ShapeOf(typeId), gameOver)
             /\ locks' = locks + 1
     ELSE /\ py' = py + 1
          /\ UNCHANGED <<board, shape, px, score, gameOver, locks, shapeRef>>
  /\ dropCounter' = 0

(***************************************************************************)
(* The matrices as the objects they are.  newPiece() stores                *)
(* SHAPES[typeId] itself in currentPiece.shape; rotate() builds newShape   *)
(* with map and stores it, or stores the matrix it started from back;      *)
(* merge() and collides() read the matrix.                                 *)
(***************************************************************************)
\* Variant: the matrix of the piece is turned in place.
TableRotatedInPlace(t, ref, s) ==
  IF ref = 0 THEN t ELSE [t EXCEPT ![ref + 1] = RotatedShape(s)]

\* The table after rotate(): map wrote a new matrix, not the one it read.
TableAfterRotate(t, ref, s) == t

\* The matrix currentPiece.shape is after rotate(): newShape when a
\* position was found, the former matrix when the search was abandoned.
RefAfterRotate(b, s, x, y, ref) ==
  IF Rotate(b, s, x, y).shape = RotatedShape(s) THEN 0 ELSE ref

(***************************************************************************)
(* handleKeyDown, one action per key.  Steered is the model's bound on     *)
(* the pieces played: the piece spawned by the last lock the bound allows  *)
(* is not played on.  A key handler paints nothing and requests no frame.  *)
(***************************************************************************)
Steered == gameOver \/ locks < MaxLocks

\* Variant: the handler without its gameOver test.
KeyMoveAlways(dir) ==
  /\ listening
  /\ Steered
  /\ px' = Move(board, shape, px, py, dir)
  /\ UNCHANGED <<board, shape, py, score, gameOver, locks, drops, loopVars>>
  /\ UNCHANGED outerVars

\* Variant: a horizontal move restarts the gravity interval.
KeyMoveResets(dir) ==
  /\ listening
  /\ Steered
  /\ IF gameOver THEN UNCHANGED px
     ELSE px' = Move(board, shape, px, py, dir)
  /\ dropCounter' = 0
  /\ UNCHANGED <<board, shape, py, score, gameOver, locks, drops>>
  /\ UNCHANGED <<lastTime, pendingFrame, listening>>
  /\ UNCHANGED outerVars

KeyMove(dir) ==
  /\ listening
  /\ Steered
  /\ IF gameOver THEN UNCHANGED px
     ELSE px' = Move(board, shape, px, py, dir)
  /\ UNCHANGED <<board, shape, py, score, gameOver, locks, drops, loopVars>>
  /\ UNCHANGED outerVars

KeyLeft == KeyMove(-1)

KeyRight == KeyMove(1)

KeyDown ==
  /\ listening
  /\ Steered
  /\ IF gameOver
     THEN UNCHANGED <<gameVars, locks, drops, dropCounter, shapeRef>>
     ELSE Drop
  /\ UNCHANGED <<lastTime, pendingFrame, listening>>
  /\ UNCHANGED <<templates, surroundVars, startTime>>

\* Variant: a rotation restarts the gravity interval.
KeyUpResets ==
  /\ listening
  /\ Steered
  /\ IF gameOver THEN UNCHANGED <<shape, px, tableVars>>
     ELSE LET r == Rotate(board, shape, px, py)
          IN /\ shape' = r.shape
             /\ px' = r.x
             /\ templates' = TableAfterRotate(templates, shapeRef, shape)
             /\ shapeRef' = RefAfterRotate(board, shape, px, py, shapeRef)
  /\ dropCounter' = 0
  /\ UNCHANGED <<board, py, score, gameOver, locks, drops>>
  /\ UNCHANGED <<lastTime, pendingFrame, listening>>
  /\ UNCHANGED <<surroundVars, startTime>>

KeyUp ==
  /\ listening
  /\ Steered
  /\ IF gameOver THEN UNCHANGED <<shape, px, tableVars>>
     ELSE LET r == Rotate(board, shape, px, py)
          IN /\ shape' = r.shape
             /\ px' = r.x
             /\ templates' = TableAfterRotate(templates, shapeRef, shape)
             /\ shapeRef' = RefAfterRotate(board, shape, px, py, shapeRef)
  /\ UNCHANGED <<board, py, score, gameOver, locks, drops, loopVars>>
  /\ UNCHANGED <<surroundVars, startTime>>

(***************************************************************************)
(* gameLoop(time), run as the pending animation-frame callback.  The       *)
(* timestamps of the callbacks that read them grow, from the time the      *)
(* effect ran.  Tick is what the call does to the game, the gravity        *)
(* counter and the request flag; LoopTick, below, is the call.             *)
(***************************************************************************)
\* Variant: the callback requests a frame after the game is over as well.
TickNoReturn(time) ==
  /\ pendingFrame
  /\ Steered
  /\ gameOver \/ (time > lastTime /\ time > startTime)
  /\ IF gameOver
     THEN /\ pendingFrame' = TRUE
          /\ UNCHANGED <<gameVars, locks, drops, dropCounter, lastTime>>
          /\ UNCHANGED shapeRef
     ELSE /\ lastTime' = time
          /\ IF dropCounter + (time - lastTime) > GravityInterval
             THEN Drop
             ELSE /\ dropCounter' = dropCounter + (time - lastTime)
                  /\ UNCHANGED <<gameVars, locks, drops, shapeRef>>
          /\ pendingFrame' = TRUE
  /\ UNCHANGED listening

\* Variant: the piece drops as soon as the counter reaches the interval.
TickAtInterval(time) ==
  /\ pendingFrame
  /\ Steered
  /\ gameOver \/ (time > lastTime /\ time > startTime)
  /\ IF gameOver
     THEN /\ pendingFrame' = FALSE
          /\ UNCHANGED <<gameVars, locks, drops, dropCounter, lastTime>>
          /\ UNCHANGED shapeRef
     ELSE /\ lastTime' = time
          /\ IF dropCounter + (time - lastTime) >= GravityInterval
             THEN Drop
             ELSE /\ dropCounter' = dropCounter + (time - lastTime)
                  /\ UNCHANGED <<gameVars, locks, drops, shapeRef>>
          /\ pendingFrame' = TRUE
  /\ UNCHANGED listening

\* Variant: the counter is set to the time since the last callback.
TickCounterSet(time) ==
  /\ pendingFrame
  /\ Steered
  /\ gameOver \/ (time > lastTime /\ time > startTime)
  /\ IF gameOver
     THEN /\ pendingFrame' = FALSE
          /\ UNCHANGED <<gameVars, locks, drops, dropCounter, lastTime>>
          /\ UNCHANGED shapeRef
     ELSE /\ lastTime' = time
          /\ IF time - lastTime > GravityInterval
             THEN Drop
             ELSE /\ dropCounter' = time - lastTime
                  /\ UNCHANGED <<gameVars, locks, drops, shapeRef>>
          /\ pendingFrame' = TRUE
  /\ UNCHANGED listening

Tick(time) ==
  /\ pendingFrame
  /\ Steered
  /\ gameOver \/ (time > lastTime /\ time > startTime)
  /\ IF gameOver
     THEN /\ pendingFrame' = FALSE
          /\ UNCHANGED <<gameVars, locks, drops, dropCounter, lastTime>>
          /\ UNCHANGED shapeRef
     ELSE /\ lastTime' = time
          /\ IF dropCounter + (time - lastTime) > GravityInterval
             THEN Drop
             ELSE /\ dropCounter' = dropCounter + (time - lastTime)
                  /\ UNCHANGED <<gameVars, locks, drops, shapeRef>>
          /\ pendingFrame' = TRUE
  /\ UNCHANGED listening

(***************************************************************************)
(* gameLoop() whole: after what Tick does, every call draws and, while the *)
(* game runs, requests the next frame and stores its handle.               *)
(***************************************************************************)
\* The cleanup calls of a behaviour.
MaxStops == 2
\* The timestamps the frame callbacks carry under SpecLoop.
LoopFrameTimes == {1000, 2100}

\* requestAnimationFrame(gameLoop) when the callback has asked for a frame.
\* Variant: the callback asks for two frames.
RequestFrameTwice ==
  IF pendingFrame'
  THEN /\ handles' = handles + 2
       /\ pendingId' = handles + 2
       /\ animationFrameId' = handles + 2
       /\ pending' = (pending \ {pendingId}) \cup {handles + 1, handles + 2}
  ELSE /\ pendingId' = 0
       /\ pending' = pending \ {pendingId}
       /\ UNCHANGED <<handles, animationFrameId>>

\* The callback that ran is no longer held by the browser.
RequestFrame ==
  IF pendingFrame'
  THEN /\ handles' = handles + 1
       /\ pendingId' = handles + 1
       /\ animationFrameId' = handles + 1
       /\ pending' = (pending \ {pendingId}) \cup {handles + 1}
  ELSE /\ pendingId' = 0
       /\ pending' = pending \ {pendingId}
       /\ UNCHANGED <<handles, animationFrameId>>

\* Variant: draw() runs before the gravity drop of the iteration.
LoopTickDrawFirst(time) ==
  /\ Tick(time)
  /\ draws' = draws + 1
  /\ canvas' = Drawn(board, shape, px, py, score, gameOver)
  /\ RequestFrame
  /\ UNCHANGED <<stops, templates, startTime, blockSize>>

LoopTick(time) ==
  /\ Tick(time)
  /\ draws' = draws + 1
  /\ canvas' = Drawn(board', shape', px', py', score', gameOver')
  /\ RequestFrame
  /\ UNCHANGED <<stops, templates, startTime, blockSize>>

Frame == \E time \in FrameTimes : LoopTick(time)

\* The game played to its end: keys and frames, no cleanup, no resize.
Next ==
  \/ KeyLeft
  \/ KeyRight
  \/ KeyDown
  \/ KeyUp
  \/ Frame

Spec == Init /\ [][Next]_vars

(***************************************************************************)
(* The game played by the keys alone, no frame delivered: the positions    *)
(* and shapes collides() and rotate() are called with.                     *)
(***************************************************************************)
NextKeys ==
  \/ KeyLeft
  \/ KeyRight
  \/ KeyDown
  \/ KeyUp

SpecKeys == Init /\ [][NextKeys]_vars

(***************************************************************************)
(* The same keys on boards where one lock fills several rows, or row 0.    *)
(***************************************************************************)
SweepStarts ==
  { <<Brim, 0>>, <<Lid, 0>>, <<GapWell, 12>>, <<PillarWell(3), 13>> }

InitSweep == InitFrom(SweepStarts, {0})

SpecSweep == InitSweep /\ [][NextKeys]_vars

(***************************************************************************)
(* The effect's cleanup, which removes the key listener, cancels the frame *)
(* whose handle is stored and disconnects the resize observer, and the     *)
(* resize callback.                                                        *)
(***************************************************************************)
\* cancelAnimationFrame(id): the callback with that handle, if the browser
\* still holds it, will not run.
CancelFrame(id) ==
  IF pendingId # 0 /\ id = pendingId
  THEN pendingFrame' = FALSE /\ pendingId' = 0 /\ pending' = pending \ {id}
  ELSE UNCHANGED <<pendingFrame, pendingId, pending>>

\* Variant: the cleanup leaves the requested frame alone.
CleanupNoCancel ==
  /\ stops < MaxStops
  /\ stops' = stops + 1
  /\ listening' = FALSE
  /\ UNCHANGED <<pendingFrame, pendingId, pending>>
  /\ UNCHANGED <<gameVars, locks, drops, dropCounter, lastTime>>
  /\ UNCHANGED <<canvas, draws, animationFrameId, handles>>
  /\ UNCHANGED <<tableVars, startTime, blockSize>>

\* Variant: the cleanup toggles the key listener instead of removing it.
CleanupToggle ==
  /\ stops < MaxStops
  /\ stops' = stops + 1
  /\ listening' = ~listening
  /\ CancelFrame(animationFrameId)
  /\ UNCHANGED <<gameVars, locks, drops, dropCounter, lastTime>>
  /\ UNCHANGED <<canvas, draws, animationFrameId, handles>>
  /\ UNCHANGED <<tableVars, startTime, blockSize>>

\* The function the effect returns.
Cleanup ==
  /\ stops < MaxStops
  /\ stops' = stops + 1
  /\ listening' = FALSE
  /\ CancelFrame(animationFrameId)
  /\ UNCHANGED <<gameVars, locks, drops, dropCounter, lastTime>>
  /\ UNCHANGED <<canvas, draws, animationFrameId, handles>>
  /\ UNCHANGED <<tableVars, startTime, blockSize>>

\* resizeCanvas() as the callback of the ResizeObserver, which the cleanup
\* disconnects: blockSize is computed from the container's size, and the
\* assignments to canvas.width and canvas.height clear the canvas.  Nothing
\* is drawn until the next gameLoop() call.
Resize(size) ==
  /\ stops = 0
  /\ blockSize' = BlockSizeOf(size)
  /\ canvas' = Blank
  /\ UNCHANGED <<gameVars, loopVars, locks, drops>>
  /\ UNCHANGED <<draws, animationFrameId, pendingId, handles, stops, pending>>
  /\ UNCHANGED <<tableVars, startTime>>

\* The callback as the observer delivers it for a container that keeps the
\* size the effect found, as it does when observation starts,
ResizeObserved == Resize(FirstSize)

\* and for a container that takes any of the sizes.
ResizeAny == \E size \in ContainerSizes : Resize(size)

\* The games SpecLoop follows start on the tower, where a lock is two drops
\* away and the next spawn can end the game.
InitLoop == Init /\ board = Tower

LoopFrame == \E time \in LoopFrameTimes : LoopTick(time)

NextLoop ==
  \/ KeyLeft
  \/ KeyRight
  \/ KeyDown
  \/ KeyUp
  \/ LoopFrame
  \/ Cleanup
  \/ ResizeObserved

SpecLoop == InitLoop /\ [][NextLoop]_vars

(***************************************************************************)
(* The loop with the effect run at the time origin of the frame            *)
(* timestamps or 1500 ms after it.  requestAnimationFrame hands the        *)
(* callback the time since that origin; the first gameLoop() call, made    *)
(* by the effect, reads the default time = 0 whenever it runs.             *)
(***************************************************************************)
StartTimes == {0, 1500}

InitClock == InitFrom({<<Tower, 0>>}, StartTimes)

SpecClock == InitClock /\ [][NextLoop]_vars

(***************************************************************************)
(* The loop that keeps running: the browser delivers a frame every 600 ms  *)
(* and no cleanup runs, while keys are pressed or not, any number of them  *)
(* before the first frame and between two frames.  The games start in the  *)
(* deep well, where the first piece is at most five drops from its lock,   *)
(* and are followed until that piece has locked.                           *)
(***************************************************************************)
FairFrameTimes == {600 * k : k \in 1..10}

FairTick(time) ==
  /\ time > lastTime
  /\ \A t \in FairFrameTimes : t > lastTime => t >= time
  /\ LoopTick(time)

FairFrame == \E time \in FairFrameTimes : FairTick(time)

InitFair == InitFrom({<<PillarWell(4), 12>>}, {0})

FirstFrame == locks = 0 /\ FairFrame

NextFair ==
  \/ locks = 0 /\ KeyLeft
  \/ locks = 0 /\ KeyRight
  \/ locks = 0 /\ KeyDown
  \/ locks = 0 /\ KeyUp
  \/ FirstFrame

SpecFair == InitFair /\ [][NextFair]_vars /\ WF_vars(FirstFrame)

(***************************************************************************)
(* The loop left alone: no key is ever pressed, no cleanup runs, and       *)
(* frames keep arriving, while the container is resized at any time.  The  *)
(* games start high up, where one lock fills the spawn position: gravity   *)
(* has built the board, one drop per frame, the frames IdleGap ms apart,   *)
(* and each of these frames has drawn and requested the next.  From there  *)
(* a frame arrives 300, 600 or 900 ms after the one before.                *)
(***************************************************************************)
\* The time between two frames while the board was built.
IdleGap == 1100

\* A board and the frames that built it: a piece that comes to rest on row
\* y takes y frames to fall and one to lock.  19 I pieces, on rows 19..1,
\* take 20 + 19 + ... + 2 frames; 9 O pieces, on rows 18..2, take
\* 19 + 17 + ... + 3, and the I piece on row 1 two more.
IdleStarts == { <<Stack, 209>>, <<StackOnO, 101>> }

IdleDelays == {300, 600, 900}

\* The time of the last frame of a behaviour.
IdleUntil == 209 * IdleGap + 2400

IdleTick(delay) ==
  /\ gameOver \/ lastTime + delay <= IdleUntil
  /\ LoopTick(lastTime + delay)

IdleFrame == \E delay \in IdleDelays : IdleTick(delay)

\* The last of the frames locked a piece and spawned the active one, drew
\* the state, with the overlay when the spawn ended the game, and
\* requested the next frame.
InitIdle ==
  /\ \E st \in IdleStarts : \E typeId \in TypeIds :
        /\ board = st[1]
        /\ shape = ShapeOf(typeId)
        /\ shapeRef = typeId
        /\ px = SpawnX(ShapeOf(typeId))
        /\ py = 0
        /\ gameOver = Collides(st[1], ShapeOf(typeId), SpawnX(ShapeOf(typeId)), 0)
        /\ canvas = Drawn(board, shape, px, py, 0, gameOver)
        /\ lastTime = st[2] * IdleGap
        /\ draws = st[2] + 1
        /\ handles = st[2] + 1
        /\ animationFrameId = st[2] + 1
        /\ pendingId = st[2] + 1
        /\ pending = {st[2] + 1}
  /\ templates = SHAPES
  /\ startTime = 0
  /\ blockSize = BlockSizeOf(FirstSize)
  /\ score = 0
  /\ dropCounter = 0
  /\ pendingFrame = TRUE
  /\ listening = TRUE
  /\ locks = 0
  /\ drops = 0
  /\ stops = 0

NextIdle == IdleFrame \/ ResizeAny

SpecIdle == InitIdle /\ [][NextIdle]_vars /\ WF_vars(IdleFrame)

(***************************************************************************)
(* Vocabulary of the properties.                                           *)
(***************************************************************************)
\* The step locks the active piece: drop() ran merge, sweepLines, newPiece.
LockStep == locks' = locks + 1

\* The board merge() leaves, read in the state before a lock step.
Merged == Merge(board, shape, px, py)

CellCount(b) ==
  Cardinality({rc \in (1..Len(b)) \X (1..COLS) : b[rc[1]][rc[2]] # 0})

IsGrid(b) ==
  /\ Len(b) = ROWS
  /\ \A r \in 1..Len(b) :
        /\ Len(b[r]) = COLS
        /\ \A c \in 1..Len(b[r]) : b[r][c] \in 0..7

(***************************************************************************)
(* C1: in every reachable state the board has exactly ROWS rows of exactly *)
(* COLS cells, and every cell holds a value in 0..7.                       *)
(***************************************************************************)
C1_GridShape == IsGrid(board)

\* A lock has merged a piece and swept a line.
C1_Witness == locks >= 1 /\ score > 0 /\ IsGrid(board)

(***************************************************************************)
(* C2: gameOver is one-way, and once it is true no key and no loop tick    *)
(* changes the board, the active piece's shape or origin, or the score.    *)
(***************************************************************************)
C2_GameOverTerminal ==
  [][gameOver => /\ gameOver'
                 /\ UNCHANGED <<board, shape, px, py, score>>]_vars

\* The game is over and the loop has run its tick on the finished game.
C2_Witness == gameOver /\ ~pendingFrame

(***************************************************************************)
(* C3: a lock that clears n lines adds exactly n*10*n to the score, and no *)
(* other step changes the score.  The lines a lock clears are counted on   *)
(* the board: the cells of the merged board that the swept board lacks,    *)
(* COLS to a line.                                                         *)
(***************************************************************************)
C3_ScoreDelta ==
  [][IF LockStep
     THEN \E n \in 0..ROWS :
            /\ CellCount(board') = CellCount(Merged) - n * COLS
            /\ score' = score + n * 10 * n
     ELSE score' = score]_vars

\* A lock has cleared four lines.
C3_Witness == locks = 1 /\ score = 160

(***************************************************************************)
(* C4: the score is a non-negative integer and never decreases.            *)
(***************************************************************************)
C4_ScoreMonotone == [](score \in Nat) /\ [][score' >= score]_vars

\* The score has grown.
C4_Witness == score > 0 /\ locks >= 1

(***************************************************************************)
(* C5: a sweep of a grid whose only full row is at index r >= 1 leaves row *)
(* 0 all zeros, every former row i < r at index i + 1, every row below r   *)
(* unchanged, and ROWS x COLS cells.                                       *)
(***************************************************************************)
FullRows(b) == {r \in 0..(Len(b) - 1) : RowFull(b[r + 1])}

C5_SingleLineSweep ==
  [][LockStep =>
       LET m == Merged
           full == FullRows(m)
       IN (Cardinality(full) = 1 /\ 0 \notin full) =>
            LET r == CHOOSE q \in full : TRUE
            IN /\ IsGrid(board')
               /\ board'[1] = ZeroRow
               /\ \A i \in 0..(r - 1) : board'[i + 2] = m[i + 1]
               /\ \A i \in (r + 1)..(ROWS - 1) : board'[i + 1] = m[i + 1]]_vars

\* A lock has cleared exactly one line.
C5_Witness == locks = 1 /\ score = 10 /\ board[1] = ZeroRow

(***************************************************************************)
(* C6: four rotations in succession, none of which collides, return the    *)
(* shape matrix to the original, with origin x and y unchanged.            *)
(***************************************************************************)
\* The pieces [shape, x] that n rotate() calls in succession lead to from
\* shape s at column x, row py: none when one of the quarter turns collides
\* where the piece stands.
RECURSIVE FreeTurns(_, _, _)
FreeTurns(n, s, x) ==
  IF n = 0 THEN {[shape |-> s, x |-> x]}
  ELSE IF Collides(board, RotatedShape(s), x, py) THEN {}
  ELSE UNION {FreeTurns(n - 1, r.shape, r.x) : r \in {Rotate(board, s, x, py)}}

C6_FourTurns ==
  /\ [](~gameOver =>
          \A p \in FreeTurns(4, shape, px) : p = [shape |-> shape, x |-> px])
  /\ [][py' = py \/ ~KeyUp]_vars

\* A T piece that has been turned once and can be turned four times more.
C6_Witness ==
  /\ ~gameOver
  /\ shape = RotatedShape(ShapeOf(5))
  /\ FreeTurns(4, shape, px) # {}

(***************************************************************************)
(* C7: every spawn takes a shape of type 1..7 and puts it at y = 0 and     *)
(* x = floor(COLS/2) - floor(width/2); the O piece spawns at x = 4.  The   *)
(* spawns are the one of the effect body, on the empty board in the first  *)
(* state, and the one of every lock.                                       *)
(***************************************************************************)
C7_Spawn ==
  /\ (board = EmptyBoard =>
        /\ \E t \in 1..7 : shape = SHAPES[t + 1]
        /\ py = 0
        /\ px = (COLS \div 2) - (Len(shape[1]) \div 2)
        /\ (shape = << <<2, 2>>, <<2, 2>> >> => px = 4))
  /\ [][LockStep =>
       /\ \E t \in 1..7 : shape' = SHAPES[t + 1]
       /\ shape' # SHAPES[1]
       /\ py' = 0
       /\ px' = (COLS \div 2) - (Len(shape'[1]) \div 2)
       /\ (shape' = << <<2, 2>>, <<2, 2>> >> => px' = 4)]_vars

\* An O piece has just been spawned by a lock.
C7_Witness ==
  locks = 1 /\ shape = << <<2, 2>>, <<2, 2>> >> /\ px = 4 /\ py = 0

(***************************************************************************)
(* C8: move(dir) shifts origin x by dir when the shifted piece does not    *)
(* collide and leaves it otherwise; shape, origin y, board, score and      *)
(* gameOver stay.  Left moves stop at the left wall.                       *)
(***************************************************************************)
C8_Move ==
  /\ [](~gameOver => px >= 0)
  /\ [][\A dir \in {-1, 1} :
          (~gameOver /\ KeyMove(dir)) =>
            /\ px' = IF Collides(board, shape, px + dir, py) THEN px ELSE px + dir
            /\ UNCHANGED <<shape, py, board, score, gameOver>>]_vars

\* The O piece moved from its spawn column to the left wall of the empty
\* board, where the next left move collides.
C8_Witness ==
  /\ board = EmptyBoard
  /\ shape = ShapeOf(2)
  /\ px = 0
  /\ py = 0
  /\ Collides(board, shape, px - 1, py)

(***************************************************************************)
(* C9: gameOver becomes true exactly when a newly spawned piece collides   *)
(* at its spawn position.                                                  *)
(***************************************************************************)
C9_GameOverOnSpawn ==
  [][/\ LockStep => (gameOver' <=> Collides(board', shape', px', py'))
     /\ (gameOver' /\ ~gameOver) => LockStep]_vars

\* A spawn has collided and ended the game.
C9_Witness == gameOver /\ locks = 1 /\ Collides(board, shape, px, py)

(***************************************************************************)
(* C10: from a board whose row 19 is filled except for column 0, with no   *)
(* other row that a piece could complete, the lock of a piece that         *)
(* completes row 19 clears one line, adds 10 to the score and leaves       *)
(* row 19 all zeros.  The last part fails: row 19 receives the former      *)
(* row 18, which holds the cell of the piece above its cell in row 19.     *)
(***************************************************************************)
\* Row 19 lacks only column 0, and every other row holds at most COLS - 5
\* cells, so no tetromino completes it.
Row19Setup(b) ==
  /\ b[ROWS][1] = 0
  /\ \A c \in 2..COLS : b[ROWS][c] # 0
  /\ \A r \in 1..(ROWS - 1) :
        Cardinality({c \in 1..COLS : b[r][c] # 0}) <= COLS - 5

CompletesRow19 == LockStep /\ Row19Setup(board) /\ RowFull(Merged[ROWS])

\* The claim as stated.
C10_AsStated ==
  [][CompletesRow19 =>
       /\ CellCount(board') = CellCount(Merged) - COLS
       /\ score' = score + 10
       /\ board'[ROWS] = ZeroRow]_vars

\* The claim as amended: the zero row is row 0, and row 19 is the former
\* row 18 with the piece's cell in column 0.
C10_Row19Cleared ==
  [][CompletesRow19 =>
       /\ CellCount(board') = CellCount(Merged) - COLS
       /\ score' = score + 10
       /\ board'[1] = ZeroRow
       /\ board'[ROWS] = Merged[ROWS - 1]
       /\ board'[ROWS][1] # 0]_vars

\* The row-19 board after the lock: one line scored, the pillar of column 1
\* and the piece's cell of column 0 in row 19, columns 2..9 empty.
C10_Witness ==
  /\ locks = 1
  /\ score = 10
  /\ board[ROWS][1] # 0
  /\ board[ROWS][2] # 0
  /\ \A c \in 3..COLS : board[ROWS][c] = 0

(***************************************************************************)
(* Vocabulary of the loop properties.                                      *)
(***************************************************************************)
\* The picture draw() would paint of the state the step leaves.
DrawnAfter == Drawn(board', shape', px', py', score', gameOver')

\* The step is a gameLoop() call: one that read its timestamp, or the one
\* that found the game over and requested no frame.
IterationStep ==
  \/ lastTime' # lastTime
  \/ gameOver /\ pendingFrame /\ ~pendingFrame' /\ stops' = stops

(***************************************************************************)
(* C11: once the cleanup has run, no step changes the board, the active    *)
(* piece, the score, gameOver or the gravity counter: not the frame that   *)
(* was requested before the cleanup, and not a key pressed after it.       *)
(***************************************************************************)
C11_StoppedFrozen ==
  [][stops >= 1 => UNCHANGED <<gameVars, dropCounter>>]_vars

\* The cleanup ran in a running game, while a frame was requested.
C11_Witness ==
  stops >= 1 /\ ~gameOver /\ draws >= 2 /\ ~pendingFrame /\ ~listening

(***************************************************************************)
(* C12: a cleanup that follows a cleanup changes nothing of the game, the  *)
(* loop, the canvas or the frame handles: two leave what one leaves.       *)
(***************************************************************************)
C12_StopIdempotent ==
  [][(stops >= 1 /\ stops' = stops + 1) =>
        UNCHANGED <<gameVars, loopVars, locks, drops,
                    canvas, draws, animationFrameId, pendingId, handles,
                    pending>>]_vars

\* The cleanup ran twice.
C12_Witness == stops = 2 /\ ~listening /\ ~pendingFrame /\ pendingId = 0

(***************************************************************************)
(* C13 as stated: once gameOver is true there is one final render with the *)
(* GAME OVER overlay, after which no iteration is requested, whichever     *)
(* drop ended the game.  So whenever the canvas shows the overlay no       *)
(* frame is requested.                                                     *)
(***************************************************************************)
C13_AsStated == canvas.over => ~pendingFrame

(***************************************************************************)
(* C13: the render made while gameOver is true, by the iteration that      *)
(* finds it true, paints the terminal board with the overlay and requests  *)
(* no frame; nothing is painted or requested after it, and the canvas      *)
(* keeps that picture unless a resize clears it.  The iteration whose own  *)
(* gravity drop ends the game paints the overlay too and still requests    *)
(* that last iteration.                                                    *)
(***************************************************************************)
C13_FinalRender ==
  /\ []((gameOver /\ ~pendingFrame /\ stops = 0) =>
           canvas \in {Drawn(board, shape, px, py, score, TRUE), Blank})
  /\ [][(gameOver /\ draws' # draws) =>
           /\ draws' = draws + 1
           /\ canvas' = Drawn(board, shape, px, py, score, TRUE)
           /\ ~pendingFrame']_vars
  /\ [][~pendingFrame =>
           (~pendingFrame' /\ draws' = draws /\ canvas' \in {canvas, Blank})]_vars
  /\ [][(~gameOver /\ gameOver' /\ draws' # draws) =>
           (canvas'.over /\ pendingFrame' /\ draws' = draws + 1)]_vars

\* The loop has ended by itself, the overlay on the canvas.
C13_Witness ==
  /\ gameOver /\ ~pendingFrame /\ stops = 0
  /\ canvas.over /\ canvas.board = board /\ locks >= 1

(***************************************************************************)
(* C14: every gameLoop() call paints once, and paints the state it leaves, *)
(* so after the gravity drop when it made one; no other step paints: the   *)
(* canvas keeps its picture or, on a resize, loses it.                     *)
(***************************************************************************)
C14_OneRender ==
  [][IF IterationStep
     THEN draws' = draws + 1 /\ canvas' = DrawnAfter
     ELSE draws' = draws /\ canvas' \in {canvas, Blank}]_vars

\* The second iteration made a gravity drop and painted the lowered piece.
C14_Witness ==
  /\ lastTime = 2100 /\ dropCounter = 0 /\ draws = 3 /\ ~gameOver
  /\ py >= 1
  /\ canvas = Drawn(board, shape, px, py, score, gameOver)

(***************************************************************************)
(* C15: an iteration that reads its timestamp calls drop() once when the   *)
(* counter plus the elapsed time exceeds GravityInterval, and then leaves  *)
(* the counter at 0 and the piece at most one row lower; otherwise it      *)
(* calls no drop() and leaves the sum in the counter.  The counter never   *)
(* exceeds GravityInterval between steps.                                  *)
(***************************************************************************)
C15_GravityOnce ==
  /\ [](dropCounter \in 0..GravityInterval)
  /\ [][lastTime' # lastTime =>
           LET sum == dropCounter + (lastTime' - lastTime)
           IN IF sum > GravityInterval
              THEN /\ drops' = drops + 1
                   /\ dropCounter' = 0
                   /\ (py' = py + 1 /\ locks' = locks) \/ locks' = locks + 1
              ELSE /\ drops' = drops
                   /\ dropCounter' = sum
                   /\ UNCHANGED <<gameVars, locks>>]_vars

\* One iteration took 2100 ms, more than two intervals: one row down.
C15_Witness ==
  lastTime = 2100 /\ draws = 2 /\ drops = 1 /\ py = 1 /\ dropCounter = 0

(***************************************************************************)
(* Vocabulary of the collision and rotation properties.                    *)
(***************************************************************************)
\* The nonzero cells of a shape, as (row, column) offsets from its origin.
ShapeCells(s) ==
  {ij \in (0..(Len(s) - 1)) \X (0..(Len(s[1]) - 1)) : s[ij[1] + 1][ij[2] + 1] # 0}

\* With the origin at (x, y), some nonzero cell is on a column outside
\* 0..COLS-1, or on a cell of the board that holds a nonzero value.
HitsColumnOrCell(b, s, x, y) ==
  \E ij \in ShapeCells(s) :
     LET r == y + ij[1]
         c == x + ij[2]
     IN \/ c < 0
        \/ c >= COLS
        \/ r \in 0..(ROWS - 1) /\ b[r + 1][c + 1] # 0

\* With the origin on row y, some nonzero cell is on a row outside 0..ROWS-1.
HitsRowOutside(s, y) ==
  \E ij \in ShapeCells(s) : y + ij[1] < 0 \/ y + ij[1] >= ROWS

\* The origins the properties test next to the active piece.
Probes == {px - 1, px, px + 1} \X {py - 1, py, py + 1}

(***************************************************************************)
(* C16: collides() returns true whenever some nonzero cell of the shape    *)
(* is on a column outside 0..COLS-1 or on a nonzero cell of the board.     *)
(***************************************************************************)
C16_ColumnOrCell ==
  \A xy \in Probes :
     HitsColumnOrCell(board, shape, xy[1], xy[2]) =>
        Collides(board, shape, xy[1], xy[2])

\* The piece touches the right wall on a board with cells: one column to
\* the right it is past the edge, one row lower it is on a filled cell.
C16_Witness ==
  /\ ~gameOver
  /\ px + Len(shape[1]) = COLS
  /\ py + Len(shape) < ROWS
  /\ Collides(board, shape, px + 1, py)
  /\ HitsColumnOrCell(board, shape, px, py + 1)
  /\ Collides(board, shape, px, py + 1)

(***************************************************************************)
(* C17 as stated: a cell on a row outside 0..ROWS-1 never makes collides() *)
(* return true by itself, so a position with no cell on a column outside   *)
(* the board and no cell on a nonzero board cell does not collide.         *)
(***************************************************************************)
C17_AsStated ==
  \A xy \in Probes :
     ~HitsColumnOrCell(board, shape, xy[1], xy[2]) =>
        ~Collides(board, shape, xy[1], xy[2])

(***************************************************************************)
(* C17: a nonzero cell on a row outside 0..ROWS-1 makes collides() return  *)
(* true, whatever the columns and the board.                               *)
(***************************************************************************)
C17_RowOutsideCollides ==
  \A xy \in Probes :
     HitsRowOutside(shape, xy[2]) => Collides(board, shape, xy[1], xy[2])

\* The piece stands on the floor: one row lower its cells are inside the
\* columns and on no filled cell, and the position collides.
C17_Witness ==
  /\ ~gameOver
  /\ py + Len(shape) = ROWS
  /\ ~HitsColumnOrCell(board, shape, px, py + 1)
  /\ Collides(board, shape, px, py + 1)

(***************************************************************************)
(* C18: a drop() call whose lowered position is free moves the piece one   *)
(* row down and changes nothing else of the game; one whose lowered        *)
(* position collides merges the piece where it is, sweeps the merged       *)
(* board, adds the score of the lines swept, and spawns one piece, which   *)
(* is tested against the swept board.                                      *)
(***************************************************************************)
C18_DropStep ==
  [][drops' = drops + 1 =>
       IF ~Collides(board, shape, px, py + 1)
       THEN /\ py' = py + 1
            /\ UNCHANGED <<board, shape, px, score, gameOver, locks>>
       ELSE LET swept == SweepLines(Merged)
            IN /\ \A ij \in ShapeCells(shape) :
                     Merged[py + ij[1] + 1][px + ij[2] + 1] # 0
               /\ board' = swept.board
               /\ score' = score + swept.lines * 10 * swept.lines
               /\ locks' = locks + 1
               /\ shape' \in {ShapeOf(t) : t \in TypeIds}
               /\ px' = SpawnX(shape') /\ py' = 0
               /\ gameOver' <=> Collides(board', shape', px', py')]_vars

\* A piece came down a row and then locked, completing two lines.
C18_Witness == locks = 1 /\ drops >= 2 /\ score = 40 /\ py = 0

(***************************************************************************)
(* C19 as stated: when the rotated shape collides at the origin, the       *)
(* positions x+1, x-1, x+2, x-2, ... are tried in this order, every one    *)
(* whose offset (+1, -2, +3, -4, ...) is no larger in magnitude than the   *)
(* rotated shape's width, and the first free one is accepted.              *)
(***************************************************************************)
\* The position the k-th offset of the sequence leads to.
KickPosition(x, k) == IF k % 2 = 1 THEN x + (k + 1) \div 2 ELSE x - k \div 2

C19_AsStated ==
  ~gameOver =>
     LET newShape == RotatedShape(shape)
         free == {k \in 1..Len(newShape[1]) :
                    ~Collides(board, newShape, KickPosition(px, k), py)}
     IN (Collides(board, newShape, px, py) /\ free # {}) =>
           \E k \in free :
              /\ \A j \in free : k <= j
              /\ Rotate(board, shape, px, py) =
                    [shape |-> newShape, x |-> KickPosition(px, k)]

(***************************************************************************)
(* C20: a rotate() call that does not end with the rotated shape ends with *)
(* the shape and the column it started with, and the up key changes        *)
(* nothing else, so the call changes nothing at all.                       *)
(***************************************************************************)
Abandons == Rotate(board, shape, px, py).shape # RotatedShape(shape)

C20_AbandonNoOp ==
  /\ []((~gameOver /\ Abandons) =>
          Rotate(board, shape, px, py) = [shape |-> shape, x |-> px])
  /\ [][UNCHANGED gameVars \/ ~(~gameOver /\ Abandons /\ KeyUp)]_vars

\* The upright I in column 8 of the empty board: lying down it collides at
\* columns 8, 9, 7 and 10, and the search is abandoned.
C20_Witness ==
  /\ ~gameOver /\ board = EmptyBoard
  /\ shape = RotatedShape(ShapeOf(1)) /\ px = 8
  /\ Collides(board, RotatedShape(shape), px, py)
  /\ Rotate(board, shape, px, py) = [shape |-> shape, x |-> px]

(***************************************************************************)
(* Vocabulary of the merge and piece properties.                           *)
(***************************************************************************)
\* The four orientations of a template.
Orientations(typeId) ==
  LET s0 == ShapeOf(typeId)
      s1 == RotatedShape(s0)
      s2 == RotatedShape(s1)
  IN {s0, s1, s2, RotatedShape(s2)}

\* The type id of the template a shape is an orientation of.
TypeOf(s) == CHOOSE typeId \in TypeIds : s \in Orientations(typeId)

\* Every nonzero cell of the active piece is on the board, on a zero cell.
PieceOnFreeCells ==
  \A ij \in ShapeCells(shape) :
     /\ py + ij[1] \in 0..(ROWS - 1)
     /\ px + ij[2] \in 0..(COLS - 1)
     /\ board[py + ij[1] + 1][px + ij[2] + 1] = 0

(***************************************************************************)
(* C23: merge() of the active piece gives the board whose cells under the  *)
(* nonzero cells of the shape hold the piece's type id and whose other     *)
(* cells are those of the board before; it returns a board and touches     *)
(* neither the piece nor the score.                                        *)
(***************************************************************************)
C23_MergeExact ==
  ~gameOver =>
     \A m \in {Merged} : \A cells \in {ShapeCells(shape)} :
     \A typeId \in {TypeOf(shape)} :
        \A r \in 0..(ROWS - 1) : \A c \in 0..(COLS - 1) :
           m[r + 1][c + 1] =
              IF <<r - py, c - px>> \in cells
              THEN typeId
              ELSE board[r + 1][c + 1]

\* The piece is about to lock, a zero cell of its matrix over a filled cell.
C23_Witness ==
  /\ ~gameOver
  /\ Collides(board, shape, px, py + 1)
  /\ \E i \in 1..Len(shape) : \E j \in 1..Len(shape[1]) :
        /\ shape[i][j] = 0
        /\ py + i <= ROWS /\ px + j \in 1..COLS
        /\ board[py + i][px + j] # 0

(***************************************************************************)
(* C24: every drop() call, made by the game loop or by the down key,       *)
(* ending in a descent or in a lock, leaves dropCounter at 0.              *)
(***************************************************************************)
C24_DropResetsCounter == [][drops' = drops + 1 => dropCounter' = 0]_vars

\* The down key was pressed after the iteration that left 1000 in the
\* counter.
C24_Witness ==
  lastTime = 1000 /\ dropCounter = 0 /\ drops >= 1 /\ canvas.y # py /\ locks = 0

(***************************************************************************)
(* C27: the row of the active piece is never negative, and no step but a  *)
(* lock, which spawns the next piece, lowers its value.                    *)
(***************************************************************************)
C27_NeverRises == [](py >= 0) /\ [][LockStep \/ py' >= py]_vars

\* The first piece, turned, moved to the left wall and three rows down.
C27_Witness ==
  /\ board = EmptyBoard /\ locks = 0 /\ py = 3 /\ px = 0
  /\ shape # ShapeOf(TypeOf(shape))

(***************************************************************************)
(* C28: a step that moves the piece sideways or turns it, without a drop,  *)
(* changes neither dropCounter nor lastTime nor the requested frame, nor   *)
(* the row, the board, the score or gameOver.                              *)
(***************************************************************************)
C28_SteeringLeavesClock ==
  [][(drops' = drops /\ (px' # px \/ shape' # shape)) =>
        UNCHANGED <<dropCounter, lastTime, pendingFrame, py, board, score,
                    gameOver>>]_vars

\* After the iteration at 1000 ms the piece was moved and turned: the
\* canvas still shows it where it was, the counter still holds 1000.
C28_Witness ==
  /\ ~gameOver /\ lastTime = 1000 /\ dropCounter = 1000
  /\ canvas.x # px /\ canvas.shape # shape /\ canvas.y = py

(***************************************************************************)
(* C29: while gameOver is false every nonzero cell of the active piece is  *)
(* inside the grid and over a zero cell of the board.                      *)
(***************************************************************************)
C29_PieceInside == ~gameOver => PieceOnFreeCells

\* A turned piece two rows down, against the left wall or cells on its
\* left, resting on cells or on the floor.
C29_Witness ==
  /\ ~gameOver /\ drops >= 2
  /\ shape # ShapeOf(TypeOf(shape))
  /\ Collides(board, shape, px - 1, py)
  /\ Collides(board, shape, px, py + 1)
  /\ PieceOnFreeCells

(***************************************************************************)
(* C30: a lock merges the four cells of the piece into cells of the grid   *)
(* that held 0, and when it sweeps n lines the board holds afterwards      *)
(* 4 - n * COLS cells more than before.                                    *)
(***************************************************************************)
C30_MergeIntoEmpty ==
  [][LockStep =>
       /\ PieceOnFreeCells
       /\ Cardinality(ShapeCells(shape)) = 4
       /\ CellCount(Merged) = CellCount(board) + 4
       /\ \E n \in 0..4 :
             /\ score' = score + n * 10 * n
             /\ CellCount(board') = CellCount(board) + 4 - n * COLS]_vars

\* A lock swept three lines.
C30_Witness == locks = 1 /\ score = 90 /\ py = 0 /\ drops >= 1

(***************************************************************************)
(* C21, as stated: the row at index 0 is never cleared, even when it is    *)
(* completely full: at a lock whose merge leaves row 0 full, that row is   *)
(* still row 0 of the board afterwards.                                    *)
(***************************************************************************)
C21_AsStated ==
  [][LockStep /\ 0 \in FullRows(Merged) => board'[1] = Merged[1]]_vars

(***************************************************************************)
(* C21: sweepLines never looks at index 0.  A sweep of a board whose only  *)
(* full row is row 0 clears nothing and leaves board and score unchanged;  *)
(* when row 0 and a row below it are full, removing the lower row brings   *)
(* the full top row down to index 1, and the same sweep removes it too.    *)
(***************************************************************************)
C21_Row0NotExamined ==
  [][LockStep =>
       LET m == Merged
           full == FullRows(m)
           n == Cardinality(full)
       IN /\ full = {0} => board' = m /\ score' = score
          /\ (0 \in full /\ full # {0}) =>
                /\ score' = score + n * 10 * n
                /\ FullRows(board') = {}
                /\ \A i \in 1..n : board'[i] = ZeroRow]_vars

\* The I piece locked in row 0 of Lid: row 0 is the only full row, it is
\* still there and nothing was scored.
C21_Witness ==
  /\ locks = 1
  /\ FullRows(board) = {0}
  /\ score = 0
  /\ gameOver
  /\ \A c \in 4..7 : board[1][c] = 1

(***************************************************************************)
(* C22: when two or more rows at indices >= 1 are full, adjacent or not,   *)
(* and row 0 is not, one sweep removes all of them: the board afterwards   *)
(* is as many all-zero rows as there were full rows, followed by the rows  *)
(* that were not full in their order, and the lines counted (the score     *)
(* gains their square times 10) are as many.                               *)
(***************************************************************************)
KeptRows(b) == SelectSeq(b, LAMBDA row : ~RowFull(row))

C22_AllFullRowsRemoved ==
  [][LockStep =>
       LET m == Merged
           full == FullRows(m)
           n == Cardinality(full)
       IN (0 \notin full /\ n >= 2) =>
            /\ board' = [i \in 1..n |-> ZeroRow] \o KeptRows(m)
            /\ Len(KeptRows(m)) = ROWS - n
            /\ score' = score + n * 10 * n]_vars

\* The upright I piece locked in the well of GapWell: rows 17 and 19 are
\* gone, the former row 18 with its hole in column 9 is the bottom row.
C22_Witness ==
  /\ locks = 1
  /\ score = 40
  /\ board[ROWS][1] = 1
  /\ board[ROWS][9] = 5
  /\ board[ROWS][COLS] = 0
  /\ board[ROWS - 1][9] = 2

(***************************************************************************)
(* C25, as stated: a tick adds to the gravity counter the time elapsed     *)
(* since the previous tick, and the first scheduled tick the time since    *)
(* the loop was started; the piece is forced down when the sum exceeds     *)
(* the gravity interval and not before.                                    *)
(***************************************************************************)
C25_AsStated ==
  [][lastTime' # lastTime =>
       LET elapsed == lastTime' - (IF draws = 1 THEN startTime ELSE lastTime)
           sum == dropCounter + elapsed
       IN IF sum > GravityInterval
          THEN drops' = drops + 1
          ELSE dropCounter' = sum /\ drops' = drops]_vars

(***************************************************************************)
(* C26: the 7 shape templates are never mutated: after any spawns, moves,  *)
(* rotations (successful or abandoned), drops and locks every entry of     *)
(* the SHAPES table is its initial matrix, although a piece that has not   *)
(* been rotated since its spawn is the template itself.                    *)
(***************************************************************************)
C26_TemplatesIntact ==
  /\ templates = SHAPES
  /\ shapeRef # 0 => shape = templates[shapeRef + 1]

\* The I piece turned upright has been moved, dropped and locked in the
\* well, three lines were cleared, and the piece spawned next is its
\* template.
C26_Witness ==
  /\ locks = 1
  /\ score = 90
  /\ shapeRef # 0
  /\ shape = templates[shapeRef + 1]
  /\ templates[2] = <<<<1, 1, 1, 1>>>>

(***************************************************************************)
(* C31: while the game is not over no row of the board is full, row 0      *)
(* included; a full row stays on the board only at index 0, and only in a  *)
(* game that is over: every piece spawns with a cell of its top row in     *)
(* row 0, so a spawn on a full row 0 ends the game.                        *)
(***************************************************************************)
C31_NoFullRowInPlay ==
  /\ ~gameOver => FullRows(board) = {}
  /\ FullRows(board) \subseteq {0}

\* A lock has left row 0 full and the spawn on it has ended the game.
C31_Witness ==
  /\ gameOver
  /\ locks = 1
  /\ RowFull(board[1])
  /\ py = 0
  /\ Collides(board, shape, px, py)

(***************************************************************************)
(* C32: a lock clears at most 4 lines (a piece has 4 cells and at most 4   *)
(* rows), a step that changes the score adds 10, 40, 90 or 160 to it, and  *)
(* the score is a multiple of 10 in every state.                           *)
(***************************************************************************)
C32_ScoreSteps ==
  /\ [](score % 10 = 0)
  /\ [][LockStep => SweepLines(Merged).lines \in 0..4]_vars
  /\ [][score' # score => score' - score \in {10, 40, 90, 160}]_vars

\* The upright I piece has locked in the well four rows deep: four lines
\* were cleared at once.
C32_Witness ==
  /\ locks = 1
  /\ score = 160
  /\ CellCount(board) = 0

(***************************************************************************)
(* C33: rotate() ends after at most 4 collision tests, at columns among    *)
(* x, x+1, x-1 and x+2; when it ends with the rotated shape the column is  *)
(* at most 2 away from x; the up key changes neither the row of the        *)
(* piece, nor the board, nor the score.                                    *)
(***************************************************************************)
C33_RotateBounded ==
  /\ [](~gameOver =>
          \A r \in {Rotate(board, shape, px, py)} :
          \A tested \in {KickTests(board, RotatedShape(shape), px, py, 1)} :
             /\ tested \subseteq {px, px + 1, px - 1, px + 2}
             /\ Cardinality(tested) <= 4
             /\ r.x \in tested \cup {px}
             /\ r.shape = RotatedShape(shape) => r.x - px \in (-2)..2)
  /\ [][(py' = py /\ board' = board /\ score' = score) \/ ~KeyUp]_vars

\* A piece turned before, in a place where the next turn collides at x,
\* x+1 and x-1 and fits at x+2.
C33_Witness ==
  /\ ~gameOver
  /\ shape # ShapeOf(TypeOf(shape))
  /\ KickTests(board, RotatedShape(shape), px, py, 1) = {px, px + 1, px - 1, px + 2}
  /\ Rotate(board, shape, px, py) = [shape |-> RotatedShape(shape), x |-> px + 2]

(***************************************************************************)
(* C34: the browser never holds more than one callback of the loop; in a   *)
(* game that is not over and has not been cleaned up it holds exactly      *)
(* one, after every iteration; and a callback it holds has the handle      *)
(* stored in animationFrameId, so the cleanup cancels that callback and    *)
(* none is held afterwards.                                                *)
(***************************************************************************)
C34_OnePending ==
  /\ [](Cardinality(pending) <= 1)
  /\ [](pendingFrame <=> pending # {})
  /\ []((stops = 0 /\ ~gameOver) => Cardinality(pending) = 1)
  /\ [](pending \subseteq {animationFrameId})
  /\ [][(IterationStep /\ ~gameOver') =>
         (pending' = {handles'} /\ handles' = handles + 1)]_vars
  /\ [][stops' = stops + 1 => pending' = {}]_vars

\* Two iterations have run, each leaving one callback, and the cleanup has
\* cancelled the last one.
C34_Witness ==
  /\ stops = 1
  /\ ~gameOver
  /\ draws = 3
  /\ handles = 3
  /\ animationFrameId = 3
  /\ pending = {}

(***************************************************************************)
(* C35: while frames keep arriving and the loop is not stopped, the        *)
(* active piece locks or the game ends, whatever left, right and up keys   *)
(* are pressed in between: they leave the gravity counter alone, so they   *)
(* cannot put the lock off for ever.                                       *)
(***************************************************************************)
C35_PieceLocks == (locks = 0 /\ ~gameOver) ~> (locks = 1 \/ gameOver)

\* The I piece was turned upright and moved over the well by keys, and
\* gravity alone took it down and locked it: ten frames, five drops.
C35_Witness ==
  /\ locks = 1
  /\ score = 160
  /\ drops = 5
  /\ lastTime = 6000

(***************************************************************************)
(* C36: with no key pressed and frames arriving, the pieces lock where     *)
(* they spawn, in columns 3..6: no row is ever full at a lock, the score   *)
(* stays 0, the game ends, and from some point on the game is over and     *)
(* no callback is requested or pending.                                    *)
(***************************************************************************)
C36_IdleGameEnds ==
  /\ [](score = 0)
  /\ [](\A r \in 1..ROWS : \A c \in 1..COLS : board[r][c] # 0 => c \in 4..7)
  /\ [][LockStep => SweepLines(Merged).lines = 0 /\ board' = Merged]_vars
  /\ <>gameOver
  /\ <>[](gameOver /\ ~pendingFrame /\ pending = {})
  /\ [][(gameOver /\ ~pendingFrame) => UNCHANGED <<handles, draws>>]_vars

\* Gravity alone has locked the I piece in row 0, the spawn on it has ended
\* the game and the last callback has run.
C36_Witness ==
  /\ gameOver
  /\ locks = 1
  /\ score = 0
  /\ \A c \in 4..7 : board[1][c] = 1
  /\ ~pendingFrame
  /\ pending = {}
  /\ lastTime = 209 * IdleGap + 1200
  /\ draws = 215
  /\ handles = 214

(***************************************************************************)
(* C37: a spawn that ends the game does not merge the piece it spawned:    *)
(* the board is the one the lock and its sweep left, and the piece stays   *)
(* at its spawn position, over at least one filled cell, in every later    *)
(* state.                                                                  *)
(***************************************************************************)
Overlaps ==
  \E ij \in ShapeCells(shape) :
     /\ py + ij[1] \in 0..(ROWS - 1)
     /\ px + ij[2] \in 0..(COLS - 1)
     /\ board[py + ij[1] + 1][px + ij[2] + 1] # 0

C37_SpawnNotMerged ==
  /\ [][(LockStep /\ gameOver') => board' = SweepLines(Merged).board]_vars
  /\ [](gameOver =>
          /\ py = 0
          /\ px = SpawnX(shape)
          /\ shape \in {ShapeOf(typeId) : typeId \in TypeIds}
          /\ Overlaps)
  /\ [][gameOver => UNCHANGED <<board, shape, px, py>>]_vars

\* The game ended at the spawn that followed the first lock on the tower,
\* the last callback has run, and the piece is where it spawned.
C37_Witness ==
  /\ gameOver
  /\ locks = 1
  /\ ~pendingFrame
  /\ draws >= 3
  /\ py = 0
  /\ Overlaps
  /\ CellCount(board) = CellCount(Tower) + 4

====
